---- MODULE Spec2Model ----
(***************************************************************************)
(* Food-Bank-Database: the barcode enrichment workflow                     *)
(* (main.py upload_barcode_image), the barcode detector                    *)
(* (barcode_detector.py) and the storage layer it uses (crud.py,           *)
(* models.py).                                                             *)
(*                                                                         *)
(* Python values are tagged records, so that None, "", 0 and [] stay       *)
(* distinct values as they are in the code.  Strings are sequences of      *)
(* one-character tokens.  Numbers are integers counted in thousandths, so  *)
(* that round(x) and round(x, 2) have something to round.                  *)
(* Server-generated timestamps (created_at, timestamp) are not modelled.   *)
(***************************************************************************)
EXTENDS Integers, Sequences, FiniteSets, TLC

(***************************************************************************)
(* Bounds of the model.                                                    *)
(***************************************************************************)
\* number of Food rows the store may ever receive (uuid supply)
MaxFoods == 2
\* number of NutritionLog rows the store may ever receive
MaxLogs == 1
\* longest text handed to validate_barcode_format in a direct call
MaxLen == 15

(***************************************************************************)
(* Python values.                                                          *)
(***************************************************************************)
None == [t |-> "none"]
Str(s) == [t |-> "str", s |-> s]
Num(n) == [t |-> "num", n |-> n]
List(l) == [t |-> "list", l |-> l]
Bytes(b) == [t |-> "bytes", b |-> b]
Date(d) == [t |-> "date", d |-> d]

IsStr(v) == v.t = "str"
IsNum(v) == v.t = "num"

\* Python truth value of v: None, 0, "", [] and b"" are falsy
Truthy(v) ==
    CASE v.t = "none" -> FALSE
      [] v.t = "str" -> v.s # <<>>
      [] v.t = "num" -> v.n # 0
      [] v.t = "list" -> v.l # <<>>
      [] v.t = "bytes" -> v.b # <<>>
      [] OTHER -> TRUE

\* dict.get(key, default)
Get(d, k, default) == IF k \in DOMAIN d THEN d[k] ELSE default

Whitespace == {" ", "\t", "\n"}
AsciiDigits == {"0", "1", "2", "3", "4", "5", "6", "7", "8", "9"}
\* characters of Unicode category Nd/No that str.isdigit() accepts and that
\* are not ASCII: ARABIC-INDIC DIGIT THREE, SUPERSCRIPT TWO
UnicodeDigits == {"U+0663", "U+00B2"}

RECURSIVE LStrip(_)
LStrip(s) == IF s # <<>> /\ Head(s) \in Whitespace THEN LStrip(Tail(s)) ELSE s

RECURSIVE RStrip(_)
RStrip(s) ==
    IF s # <<>> /\ s[Len(s)] \in Whitespace
    THEN RStrip(SubSeq(s, 1, Len(s) - 1))
    ELSE s

\* str.strip()
Strip(s) == RStrip(LStrip(s))

\* index of the first sep in s, 0 when there is none
RECURSIVE IndexOf(_, _, _)
IndexOf(s, sep, i) ==
    IF i > Len(s) THEN 0
    ELSE IF s[i] = sep THEN i ELSE IndexOf(s, sep, i + 1)

\* str.split(sep): the sequence of the pieces between separators
RECURSIVE Split(_, _)
Split(s, sep) ==
    LET i == IndexOf(s, sep, 1)
    IN IF i = 0 THEN <<s>>
       ELSE <<SubSeq(s, 1, i - 1)>> \o Split(SubSeq(s, i + 1, Len(s)), sep)

\* str.isdigit(): non-empty and every character is a digit character
IsDigit(s) == s # <<>> /\ \A i \in 1..Len(s) : s[i] \in AsciiDigits \cup UnicodeDigits

\* round half to even of n thousandths to a multiple of unit thousandths
RoundHalfEven(n, unit) ==
    LET q == n \div unit
        r == n - q * unit
    IN IF 2 * r < unit THEN q * unit
       ELSE IF 2 * r > unit THEN (q + 1) * unit
       ELSE IF q % 2 = 0 THEN q * unit ELSE (q + 1) * unit

\* round(x): to an integer
Round0(n) == RoundHalfEven(n, 1000)
\* round(x, 2): to two decimals
Round2(n) == RoundHalfEven(n, 10)

(***************************************************************************)
(* barcode_detector.py                                                     *)
(***************************************************************************)
\* the payloads pyzbar can find in the pictures of the model
Ean13 == <<"4", "0", "0", "6", "3", "8", "1", "3", "3", "3", "9", "3", "1">>
Ean8 == <<"9", "6", "3", "8", "5", "0", "7", "4">>
QrText == <<"h", "t", "t", "p", "a", "b", "c", "d">>
Digits9 == <<"1", "2", "3", "4", "5", "6", "7", "8", "9">>
\* a symbol whose bytes are not valid UTF-8
BadUtf8 == [t |-> "badutf8"]

Sym(text) == [t |-> "sym", text |-> text]

\* valid_lengths of validate_barcode_format
ValidLengths == {8, 12, 13, 14}

\* A picture: what the base64 payload holds ("image", or a payload that does
\* not decode), the pixel grid cv2.imdecode makes of it, and what pyzbar finds
\* in the decoded image and in each of its three preprocessed variants.
Picture(dec, o, g, th, a) ==
    [decodable |-> dec, payload |-> IF dec THEN "image" ELSE "not_an_image",
     grid |-> "bgr", original |-> o, gray |-> g, thresh |-> th, adaptive |-> a]

Images ==
    { Picture(FALSE, <<>>, <<>>, <<>>, <<>>),
      Picture(TRUE, <<>>, <<>>, <<>>, <<>>),
      Picture(TRUE, <<Sym(Ean13)>>, <<>>, <<>>, <<>>),
      Picture(TRUE, <<Sym(QrText), Sym(Ean8)>>, <<>>, <<>>, <<>>),
      Picture(TRUE, <<Sym(Ean13), Sym(Ean8)>>, <<>>, <<>>, <<>>),
      Picture(TRUE, <<Sym(Digits9)>>, <<>>, <<>>, <<>>),
      Picture(TRUE, <<>>, <<>>, <<>>, <<Sym(Ean8)>>),
      Picture(TRUE, <<>>, <<>>, <<Sym(Ean8)>>, <<Sym(Ean13)>>),
      Picture(TRUE, <<BadUtf8>>, <<>>, <<>>, <<>>) }

\* payloads that do not decode as an image: a string that is not base64
\* (b64decode raises), bytes that are no image (imdecode returns None), and
\* the empty payload (imdecode raises on an empty buffer)
BadPayloads == {"invalid_base64", "not_an_image", "empty"}

BadPayload(kind) ==
    [Picture(FALSE, <<>>, <<>>, <<>>, <<>>) EXCEPT !.payload = kind]

\* pixel grids a caller can hand to preprocess_image: a colour image as
\* imdecode returns it, a 0x0 array, a grid that is already grayscale (two
\* dimensions), and a colour image of float32 pixels
Grids == {"bgr", "empty", "gray2d", "float32"}

Grid(kind) == [Picture(TRUE, <<>>, <<>>, <<>>, <<>>) EXCEPT !.grid = kind]

\* where a library call can fail inside detect_barcodes_with_preprocessing:
\* pyzbar.decode on the decoded image, preprocess_image, pyzbar.decode on the
\* first variant
DetectorFaults == {"none", "pyzbar", "preprocess", "pyzbar_variant"}

\* base64.b64decode raises binascii.Error
B64Raises(image) == image.payload = "invalid_base64"

\* cv2.imdecode raises cv2.error
ImDecodeRaises(image) == image.payload = "empty"

\* base64.b64decode + cv2.imdecode: the decoded image, or None
ImDecode(image) == IF image.decodable THEN image ELSE None

\* pyzbar.decode(img) on the decoded image or on one of its variants
PyzbarDecode(img, variant) == img[variant]

\* [barcode.data.decode('utf-8') for barcode in barcodes]; raised when a
\* payload is not UTF-8
DecodeTexts(syms) ==
    IF \E i \in 1..Len(syms) : syms[i] = BadUtf8
    THEN [raised |-> TRUE, texts |-> <<>>]
    ELSE [raised |-> FALSE, texts |-> [i \in 1..Len(syms) |-> syms[i].text]]

\* cv2.cvtColor(img, COLOR_BGR2GRAY) raises cv2.error on an empty grid and on
\* a grid that has no three channels
CvtColorRaises(img) == img.grid \in {"empty", "gray2d"}

\* cv2.adaptiveThreshold raises cv2.error unless the grid is 8-bit
AdaptiveThresholdRaises(img) == img.grid = "float32"

\* preprocess_image: the variants in the order they are appended; it has no
\* try/except, an error of a transform leaves through it
preprocess_image(img) ==
    IF CvtColorRaises(img) THEN [raised |-> TRUE, variants |-> <<>>]
    ELSE LET gray == <<"gray">>
             thresh == Append(gray, "thresh")
         IN IF AdaptiveThresholdRaises(img)
            THEN [raised |-> TRUE, variants |-> <<>>]
            ELSE [raised |-> FALSE, variants |-> Append(thresh, "adaptive")]

\* ScanVariants whose loop has no return: it decodes every variant and keeps
\* the texts of the last one with a detection
ScanVariantsNoReturn(img, variants, fault) ==
    LET hits == {i \in 1..Len(variants) : PyzbarDecode(img, variants[i]) # <<>>}
        last == CHOOSE i \in hits : \A j \in hits : j <= i
        decoded == DecodeTexts(PyzbarDecode(img, variants[last]))
    IN IF fault = "pyzbar_variant"
       THEN [raised |-> TRUE, texts |-> <<>>, calls |-> SubSeq(variants, 1, 1)]
       ELSE IF hits = {}
            THEN [raised |-> FALSE, texts |-> <<>>, calls |-> variants]
            ELSE [raised |-> decoded.raised, texts |-> decoded.texts,
                  calls |-> variants]

\* the loop over processed_images: the texts of the first variant with a
\* detection, no texts when no variant has one; calls lists the variants
\* pyzbar.decode was invoked on
RECURSIVE ScanVariants(_, _, _)
ScanVariants(img, variants, fault) ==
    IF variants = <<>> THEN [raised |-> FALSE, texts |-> <<>>, calls |-> <<>>]
    ELSE IF fault = "pyzbar_variant"
         THEN [raised |-> TRUE, texts |-> <<>>, calls |-> <<Head(variants)>>]
         ELSE LET barcodes == PyzbarDecode(img, Head(variants))
                  decoded == DecodeTexts(barcodes)
                  rest == ScanVariants(img, Tail(variants), fault)
              IN IF barcodes # <<>>
                 THEN [raised |-> decoded.raised, texts |-> decoded.texts,
                       calls |-> <<Head(variants)>>]
                 ELSE [rest EXCEPT !.calls = <<Head(variants)>> \o @]

\* DetectTry that produces the cascade before it looks at what pyzbar found
\* in the decoded image
DetectTryEagerCascade(image, fault) ==
    IF B64Raises(image) \/ ImDecodeRaises(image)
    THEN [raised |-> TRUE, texts |-> <<>>, calls |-> <<>>]
    ELSE LET img == ImDecode(image)
         IN IF img = None THEN [raised |-> FALSE, texts |-> <<>>, calls |-> <<>>]
            ELSE IF fault = "pyzbar"
            THEN [raised |-> TRUE, texts |-> <<>>, calls |-> <<"original">>]
            ELSE LET processed_images ==
                         IF fault = "preprocess"
                         THEN [raised |-> TRUE, variants |-> <<>>]
                         ELSE preprocess_image(img)
                     scan == ScanVariants(img, processed_images.variants, fault)
                     decoded == DecodeTexts(PyzbarDecode(img, "original"))
                 IN IF processed_images.raised
                    THEN [raised |-> TRUE, texts |-> <<>>,
                          calls |-> <<"original", "preprocess_image">>]
                    ELSE IF PyzbarDecode(img, "original") # <<>>
                    THEN [raised |-> decoded.raised, texts |-> decoded.texts,
                          calls |-> <<"original", "preprocess_image">>]
                    ELSE [scan EXCEPT !.calls =
                              <<"original", "preprocess_image">> \o @]

\* lines 28-60, the body of the try: what it returns or that it raised, and
\* the calls of pyzbar.decode ("original" and the variants) and of
\* preprocess_image it made, in order
DetectTry(image, fault) ==
    IF B64Raises(image) \/ ImDecodeRaises(image)
    THEN [raised |-> TRUE, texts |-> <<>>, calls |-> <<>>]
    ELSE LET img == ImDecode(image)
         IN IF img = None THEN [raised |-> FALSE, texts |-> <<>>, calls |-> <<>>]
            ELSE IF fault = "pyzbar"
            THEN [raised |-> TRUE, texts |-> <<>>, calls |-> <<"original">>]
            ELSE IF PyzbarDecode(img, "original") # <<>>
            THEN LET decoded == DecodeTexts(PyzbarDecode(img, "original"))
                 IN [raised |-> decoded.raised, texts |-> decoded.texts,
                     calls |-> <<"original">>]
            ELSE LET processed_images ==
                         IF fault = "preprocess"
                         THEN [raised |-> TRUE, variants |-> <<>>]
                         ELSE preprocess_image(img)
                     scan == ScanVariants(img, processed_images.variants, fault)
                 IN IF processed_images.raised
                    THEN [raised |-> TRUE, texts |-> <<>>,
                          calls |-> <<"original", "preprocess_image">>]
                    ELSE [scan EXCEPT !.calls =
                              <<"original", "preprocess_image">> \o @]

\* DetectRun without lines 62-64: an exception leaves the function
DetectRunNoExcept(image, fault) ==
    LET found == DetectTry(image, fault)
    IN [found EXCEPT !.texts = IF found.raised THEN <<>> ELSE @]

\* lines 27-64: the try with its except Exception: return []
DetectRun(image, fault) ==
    LET found == DetectTry(image, fault)
    IN IF found.raised
       THEN [raised |-> FALSE, texts |-> <<>>, calls |-> found.calls]
       ELSE found

detect_barcodes_with_preprocessing(image) == DetectRun(image, "none").texts

\* validate_barcode_format that takes every length from 8 to 14
validate_barcode_format_range(barcode) ==
    IF ~IsDigit(barcode) THEN FALSE
    ELSE Len(barcode) \in 8..14

validate_barcode_format(barcode) ==
    IF ~IsDigit(barcode) THEN FALSE
    ELSE Len(barcode) \in ValidLengths

(***************************************************************************)
(* models.py                                                               *)
(***************************************************************************)
FoodColumns ==
    { "id", "barcode", "name", "brand", "category", "calories", "protein",
      "fat", "carbs", "fiber", "sugars", "sodium", "allergens", "expiry_date",
      "quantity", "location", "barcode_image_url", "barcode_image_data" }

\* Food(**food_data) as the row the insert writes: a column that is not given
\* is NULL, quantity has default 0, id is a fresh uuid
Food(id, food_data) ==
    [c \in FoodColumns |->
        IF c = "id" THEN id
        ELSE IF c \in DOMAIN food_data THEN food_data[c]
        ELSE IF c = "quantity" THEN Num(0)
        ELSE None]

\* barcode and name are nullable=False
ViolatesNotNull(food) == food.barcode = None \/ food.name = None

\* a LargeBinary column binds bytes: the flush raises on a str
\* (barcode_image_data is Optional[str] in schemas.py 29 and 76)
BindRaises(food) == IsStr(food.barcode_image_data)

\* Food.to_dict raises LookupError when barcode_image_data holds bytes:
\* bytes.decode('base64') names a codec that is not a text encoding
ToDictRaises(food) == Truthy(food.barcode_image_data)

\* Food.to_dict when it does not raise
ToDict(food) ==
    [c \in FoodColumns |->
        IF c = "expiry_date"
        THEN (IF Truthy(food.expiry_date) THEN Str(food.expiry_date.d) ELSE None)
        ELSE IF c = "barcode_image_data" THEN None
        ELSE food[c]]

(***************************************************************************)
(* crud.py                                                                 *)
(***************************************************************************)
\* where the database can fail inside create_food
CreateFaults == {"none", "commit", "refresh"}
\* where the database can fail inside a query
QueryFaults == {"none", "query"}

\* get_food_by_barcode that filters on the id column
get_food_by_barcode_on_id(store, barcode) ==
    LET rows == {f \in store : Str(<<f.id>>) = barcode}
    IN IF rows = {} THEN {None} ELSE rows

\* get_food_by_barcode: .first() of the rows with the barcode, in the order
\* the database returns them (no ORDER BY): any of them, None when none
get_food_by_barcode(store, barcode) ==
    LET rows == {f \in store : f.barcode = barcode}
    IN IF rows = {} THEN {None} ELSE rows

\* create_food: add, commit, refresh; on an exception rollback and re-raise.
\* A failed commit leaves the store as it was; a failure of the refresh comes
\* after the commit, which the rollback does not undo.
create_food(store, food_data, id, fault) ==
    LET food == Food(id, food_data)
    IN IF fault = "commit" \/ ViolatesNotNull(food) \/ BindRaises(food)
       THEN [raised |-> TRUE, store |-> store, food |-> None]
       ELSE IF fault = "refresh"
            THEN [raised |-> TRUE, store |-> store \cup {food}, food |-> None]
            ELSE [raised |-> FALSE, store |-> store \cup {food}, food |-> food]

(***************************************************************************)
(* main.py: the catalog's answers                                          *)
(***************************************************************************)
Dict(d) == [t |-> "dict", d |-> d]
\* a body that is not JSON
BadJson == [t |-> "badjson"]

UnknownProduct ==
    <<"U", "n", "k", "n", "o", "w", "n", " ", "P", "r", "o", "d", "u", "c", "t">>
OatMilk == <<"O", "a", "t", " ", "M", "i", "l", "k">>

\* product objects of the catalog
ProductFull ==
    Dict([product_name |-> Str(<<" ">> \o OatMilk \o <<" ">>),
          brands |-> Str(<<"O", "a", "t", "l", "y", " ">>),
          categories |-> Str(<<"D", "r", "i", "n", "k", "s", ",", " ", "V", "e", "g">>),
          nutriments |-> Dict([proteins_100g |-> Num(1234), fat_100g |-> Num(0)]
                              @@ ("energy-kcal_100g" :> Num(45500))),
          allergens |-> Str(<<"m", "i", "l", "k", ",", " ", "s", "o", "y">>)])
ProductBare == Dict([nutriments |-> Dict(<<>>)])
ProductBlankName == Dict([product_name |-> Str(<<" ", " ">>)])
ProductNullName == Dict([product_name |-> None])

Products == {ProductFull, ProductBare, ProductBlankName, ProductNullName}

\* what requests.get(url, timeout=10) does: raise, or a response
CatalogResponses ==
    { [kind |-> "timeout"], [kind |-> "connection_error"],
      [kind |-> "http", status_code |-> 404, body |-> BadJson],
      [kind |-> "http", status_code |-> 200, body |-> BadJson],
      [kind |-> "http", status_code |-> 200, body |-> Dict([status |-> Num(0)])],
      [kind |-> "http", status_code |-> 200, body |-> Dict([status |-> Num(1000)])] }
    \cup { [kind |-> "http", status_code |-> 200,
            body |-> Dict([status |-> Num(1000), product |-> p])] : p \in Products }

(***************************************************************************)
(* main.py: building food_data from the catalog's product (lines 291-315)  *)
(***************************************************************************)
\* the nutrient columns, their key in nutriments and their rounding digits
NutrientKey ==
    [calories |-> "energy-kcal_100g", protein |-> "proteins_100g",
     fat |-> "fat_100g", carbs |-> "carbohydrates_100g", fiber |-> "fiber_100g",
     sugars |-> "sugars_100g", sodium |-> "sodium_100g"]

NutrientColumns == DOMAIN NutrientKey

\* product.get(key, default).strip() raises unless the value is a str
StripRaises(product, key, default) == ~IsStr(Get(product, key, default))

\* "name"
NameOf(product) == Str(Strip(Get(product, "product_name", Str(UnknownProduct)).s))

\* "brand": product.get('brands', '').strip() or None
BrandOf(product) ==
    LET b == Strip(Get(product, "brands", Str(<<>>)).s)
    IN IF b # <<>> THEN Str(b) ELSE None

\* "category": the first comma-separated piece, stripped, when there is one
CategoryRaises(product) ==
    Truthy(Get(product, "categories", None)) /\ ~IsStr(product["categories"])

CategoryOf(product) ==
    IF Truthy(Get(product, "categories", None))
    THEN Str(Strip(Split(product["categories"].s, ",")[1]))
    ELSE None

\* round(...) raises on a value that is not a number
NutrientRaises(nutriments, column) ==
    LET v == Get(nutriments, NutrientKey[column], None)
    IN Truthy(v) /\ ~IsNum(v)

\* NutrientOf that tests the value against None, not its truth
NutrientOfNotNone(nutriments, column) ==
    LET v == Get(nutriments, NutrientKey[column], None)
    IN IF v # None
       THEN Num(IF column = "calories" THEN Round0(v.n) ELSE Round2(v.n))
       ELSE None

NutrientOf(nutriments, column) ==
    LET v == Get(nutriments, NutrientKey[column], None)
    IN IF Truthy(v)
       THEN Num(IF column = "calories" THEN Round0(v.n) ELSE Round2(v.n))
       ELSE None

\* "allergens": product.get('allergens', '').split(',') when there is one
AllergensRaises(product) ==
    Truthy(Get(product, "allergens", None)) /\ ~IsStr(product["allergens"])

AllergensOf(product) ==
    IF Truthy(Get(product, "allergens", None))
    THEN List(Split(product["allergens"].s, ","))
    ELSE List(<<>>)

\* an exception between line 291 and line 315
BuildRaises(body) ==
    \/ "product" \notin DOMAIN body
    \/ body["product"].t # "dict"
    \/ LET product == body["product"].d
           nutriments == Get(product, "nutriments", Dict(<<>>))
       IN \/ nutriments.t # "dict"
          \/ StripRaises(product, "product_name", Str(UnknownProduct))
          \/ StripRaises(product, "brands", Str(<<>>))
          \/ CategoryRaises(product)
          \/ \E c \in NutrientColumns : NutrientRaises(nutriments.d, c)
          \/ AllergensRaises(product)

\* the dict of lines 298-312
RawFoodData(barcode, product) ==
    LET nutriments == Get(product, "nutriments", Dict(<<>>)).d
    IN [k \in {"barcode", "name", "brand", "category", "allergens", "quantity"}
              \cup NutrientColumns |->
          CASE k = "barcode" -> barcode
            [] k = "name" -> NameOf(product)
            [] k = "brand" -> BrandOf(product)
            [] k = "category" -> CategoryOf(product)
            [] k = "allergens" -> AllergensOf(product)
            [] k = "quantity" -> Num(1000)
            [] OTHER -> NutrientOf(nutriments, k)]

\* a filter that drops None only
KeptNotNone(v) == v # None

\* line 315: keep v when v is not None and v != '' and v != []
Kept(v) == v # None /\ v # Str(<<>>) /\ v # List(<<>>)

\* food_data as it leaves line 315
BuildFoodData(barcode, product) ==
    LET raw == RawFoodData(barcode, product)
    IN [k \in {c \in DOMAIN raw : Kept(raw[c])} |-> raw[k]]

(***************************************************************************)
(* main.py: upload_barcode_image                                           *)
(***************************************************************************)
\* a literal message or error text of a response
Text(m) == [t |-> "text", m |-> m]

\* BarcodeImageUploadResponse(...)
Response(success, barcode, product_data, message, error) ==
    [kind |-> "response", success |-> success, barcode |-> barcode,
     product_data |-> product_data, message |-> Text(message), error |-> error]

\* raise HTTPException(status_code=...)
HttpException(code) == [kind |-> "http_exception", status_code |-> code]

MsgNotFound == "No barcode detected in the uploaded image"
MsgInvalidFormat == "Invalid barcode format detected"
MsgBarcodeOnly == "Barcode detected but product not found in OpenFoodFacts database"
MsgFetchError == "Error fetching product data from OpenFoodFacts"
MsgAlreadyExists == "Barcode detected and food already exists in database"
MsgSaved == "Barcode detected and product saved to database"
MsgSavedFailed == "Barcode detected but error occurred while saving to database"
MsgResolved == "Barcode detected successfully"

\* line 253
NotFoundResponse ==
    Response(FALSE, None, None, MsgNotFound, Text("No barcode found"))
\* line 263
InvalidFormatResponse ==
    Response(FALSE, None, None, MsgInvalidFormat, Text("Invalid barcode format"))
\* line 278
BarcodeOnlyResponse(barcode) == Response(TRUE, barcode, None, MsgBarcodeOnly, None)
\* line 285
FetchErrorResponse == Response(FALSE, None, None, MsgFetchError, Text("str(e)"))
\* line 323
AlreadyExistsResponse(barcode, product_data) ==
    Response(TRUE, barcode, Dict(product_data), MsgAlreadyExists, None)
\* line 335
SavedResponse(barcode, product_data) ==
    Response(TRUE, barcode, Dict(product_data), MsgSaved, None)
\* line 344
SavedFailedResponse(barcode, product_data) ==
    Response(TRUE, barcode, Dict(product_data), MsgSavedFailed, None)
\* line 352
ResolvedResponse(barcode, product_data) ==
    Response(TRUE, barcode, Dict(product_data), MsgResolved, None)

\* the values BarcodeImageUploadRequest.validate_action lets through
Actions == {"scan", "scan_and_save"}

\* the requests the server can be handling: see Serial
Reqs == {"r1"}

VARIABLES
    \* the rows of table foods
    foods,
    \* the rows of table nutrition_logs
    logs,
    \* the next unused Food id and NutritionLog id
    nextFoodId,
    nextLogId,
    \* per request: where the handler is, its locals, the collaborators it has
    \* invoked so far, and what it returned or raised
    req,
    \* a direct call of one function: the function, its argument and, once it
    \* has returned, what it returned or raised
    probe,
    \* what created the tables of food_tracking.db, whichever ran first on the
    \* empty directory: "models" for create_tables (database.py 71-76, run at
    \* startup by main.py 56-59), "setup" for setup.py 24-82
    schema

vars == <<foods, logs, nextFoodId, nextLogId, req, probe, schema>>

\* no function is being called directly
NoProbe == [fn |-> "none", pc |-> "none"]

IdleReq ==
    [pc |-> "idle", image |-> None, action |-> "none", barcodes |-> <<>>,
     barcode |-> None, lookup |-> None, food_data |-> None, existing |-> None,
     fault |-> "none", calls |-> <<>>, result |-> None]

Init ==
    /\ foods = {}
    /\ logs = {}
    /\ nextFoodId = 1
    /\ nextLogId = 1
    /\ req = [r \in Reqs |-> IdleReq]
    /\ probe = NoProbe
    /\ schema = "models"

\* the handler of r returns or raises
Finish(r, cur, result) ==
    req' = [req EXCEPT ![r] = [cur EXCEPT !.pc = "done", !.result = result]]

\* the handler of r goes on to the next stage
Goto(r, cur, stage) == req' = [req EXCEPT ![r] = [cur EXCEPT !.pc = stage]]

\* Serial that lets the handlers of two requests run at the same time
SerialNever(r) == TRUE

\* The handler is an async function that never awaits, and uvicorn.run serves
\* with one process: the event loop runs a handler from its first line to its
\* return before it starts the handler of another request.
Serial(r) == \A q \in DOMAIN req \ {r} : req[q].pc \in {"idle", "done"}

\* a request arrives (lines 231-246; the action was validated by the schema)
Submit(r, image, action) ==
    /\ req[r].pc = "idle"
    /\ Serial(r)
    /\ req' = [req EXCEPT ![r] = [IdleReq EXCEPT !.pc = "detect", !.image = image,
                                                 !.action = action]]
    /\ UNCHANGED <<foods, logs, nextFoodId, nextLogId, probe, schema>>

\* lines 248-257
Detect(r) ==
    /\ req[r].pc = "detect"
    /\ LET barcodes == detect_barcodes_with_preprocessing(req[r].image)
           cur == [req[r] EXCEPT !.barcodes = barcodes,
                                 !.calls = Append(@, "detect")]
       IN IF barcodes = <<>>
          THEN Finish(r, cur, NotFoundResponse)
          ELSE Goto(r, cur, "validate")
    /\ UNCHANGED <<foods, logs, nextFoodId, nextLogId, probe, schema>>

\* Validate that logs the bad format and goes on
ValidateNoReturn(r) ==
    /\ req[r].pc = "validate"
    /\ LET barcode == req[r].barcodes[1]
           cur == [req[r] EXCEPT !.barcode = Str(barcode),
                                 !.calls = Append(@, "validate")]
       IN Goto(r, cur, "lookup")
    /\ UNCHANGED <<foods, logs, nextFoodId, nextLogId, probe, schema>>

\* Validate that takes the first text that passes the format rules
ValidateFirstValid(r) ==
    /\ req[r].pc = "validate"
    /\ LET valid == {i \in 1..Len(req[r].barcodes) :
                        validate_barcode_format(req[r].barcodes[i])}
           first == IF valid = {} THEN 1
                    ELSE CHOOSE i \in valid : \A j \in valid : i <= j
           barcode == req[r].barcodes[first]
           cur == [req[r] EXCEPT !.barcode = Str(barcode),
                                 !.calls = Append(@, "validate")]
       IN IF ~validate_barcode_format(barcode)
          THEN Finish(r, cur, InvalidFormatResponse)
          ELSE Goto(r, cur, "lookup")
    /\ UNCHANGED <<foods, logs, nextFoodId, nextLogId, probe, schema>>

\* lines 259-269
Validate(r) ==
    /\ req[r].pc = "validate"
    /\ LET barcode == req[r].barcodes[1]
           cur == [req[r] EXCEPT !.barcode = Str(barcode),
                                 !.calls = Append(@, "validate")]
       IN IF ~validate_barcode_format(barcode)
          THEN Finish(r, cur, InvalidFormatResponse)
          ELSE Goto(r, cur, "lookup")
    /\ UNCHANGED <<foods, logs, nextFoodId, nextLogId, probe, schema>>

\* LookupResult without the try/except around requests.get: the exception
\* reaches the handler's outer except
LookupResultNoCatch(barcode, resp) ==
    IF resp.kind # "http" THEN HttpException(500)
    ELSE IF resp.status_code # 200 THEN BarcodeOnlyResponse(barcode)
    ELSE IF resp.body = BadJson THEN HttpException(500)
    ELSE IF Get(resp.body.d, "status", None) = Num(0) THEN BarcodeOnlyResponse(barcode)
    ELSE None

\* LookupResult with an except branch that answers as for "not found"
LookupResultAsNotFound(barcode, resp) ==
    IF resp.kind # "http" THEN BarcodeOnlyResponse(barcode)
    ELSE IF resp.status_code # 200 THEN BarcodeOnlyResponse(barcode)
    ELSE IF resp.body = BadJson THEN BarcodeOnlyResponse(barcode)
    ELSE IF Get(resp.body.d, "status", None) = Num(0) THEN BarcodeOnlyResponse(barcode)
    ELSE None

\* LookupResult without the test of the body's status
LookupResultNoStatus(barcode, resp) ==
    IF resp.kind # "http" THEN FetchErrorResponse
    ELSE IF resp.status_code # 200 THEN BarcodeOnlyResponse(barcode)
    ELSE IF resp.body = BadJson THEN FetchErrorResponse
    ELSE None

\* what lines 274-289 return for the catalog's answer, None to go on
LookupResult(barcode, resp) ==
    IF resp.kind # "http" THEN FetchErrorResponse
    ELSE IF resp.status_code # 200 THEN BarcodeOnlyResponse(barcode)
    ELSE IF resp.body = BadJson THEN FetchErrorResponse
    ELSE IF Get(resp.body.d, "status", None) = Num(0) THEN BarcodeOnlyResponse(barcode)
    ELSE None

\* Lookup that asks the catalog a second time when the first call raised
LookupRetry(r) ==
    /\ req[r].pc = "lookup"
    /\ \E resp \in CatalogResponses :
         LET cur == [req[r] EXCEPT !.lookup = resp, !.calls = Append(@, "catalog")]
             result == LookupResult(req[r].barcode, resp)
         IN IF resp.kind # "http" /\ req[r].lookup = None
            THEN Goto(r, cur, "lookup")
            ELSE IF result # None
                 THEN Finish(r, cur, result)
                 ELSE Goto(r, cur, "normalize")
    /\ UNCHANGED <<foods, logs, nextFoodId, nextLogId, probe, schema>>

\* Lookup that remembers a failed catalog call: it stores a placeholder row
\* for the barcode
LookupPlaceholder(r) ==
    /\ req[r].pc = "lookup"
    /\ \E resp \in CatalogResponses :
         LET cur == [req[r] EXCEPT !.lookup = resp, !.calls = Append(@, "catalog")]
             result == LookupResult(req[r].barcode, resp)
             placeholder == Food(nextFoodId, [barcode |-> req[r].barcode,
                                              name |-> Str(UnknownProduct)])
             remembers == result = FetchErrorResponse /\ nextFoodId <= MaxFoods
         IN /\ IF result # None
               THEN Finish(r, cur, result)
               ELSE Goto(r, cur, "normalize")
            /\ foods' = IF remembers THEN foods \cup {placeholder} ELSE foods
            /\ nextFoodId' = IF remembers THEN nextFoodId + 1 ELSE nextFoodId
    /\ UNCHANGED <<logs, nextLogId, probe, schema>>

\* lines 271-289
Lookup(r) ==
    /\ req[r].pc = "lookup"
    /\ \E resp \in CatalogResponses :
         LET cur == [req[r] EXCEPT !.lookup = resp, !.calls = Append(@, "catalog")]
             result == LookupResult(req[r].barcode, resp)
         IN IF result # None
            THEN Finish(r, cur, result)
            ELSE Goto(r, cur, "normalize")
    /\ UNCHANGED <<foods, logs, nextFoodId, nextLogId, probe, schema>>

\* Normalize without the test of request.action: every request saves
NormalizeAlwaysSave(r) ==
    /\ req[r].pc = "normalize"
    /\ LET body == req[r].lookup.body.d
           cur == [req[r] EXCEPT !.calls = Append(@, "normalize")]
       IN IF BuildRaises(body)
          THEN Finish(r, cur, HttpException(500))
          ELSE LET food_data == BuildFoodData(req[r].barcode, body["product"].d)
                   built == [cur EXCEPT !.food_data = Dict(food_data)]
               IN Goto(r, built, "find")
    /\ UNCHANGED <<foods, logs, nextFoodId, nextLogId, probe, schema>>

\* lines 291-318 and, for action scan, 351-357; an exception leaves through
\* lines 361-366
Normalize(r) ==
    /\ req[r].pc = "normalize"
    /\ LET body == req[r].lookup.body.d
           cur == [req[r] EXCEPT !.calls = Append(@, "normalize")]
       IN IF BuildRaises(body)
          THEN Finish(r, cur, HttpException(500))
          ELSE LET food_data == BuildFoodData(req[r].barcode, body["product"].d)
                   built == [cur EXCEPT !.food_data = Dict(food_data)]
               IN IF req[r].action = "scan_and_save"
                  THEN Goto(r, built, "find")
                  ELSE Finish(r, built, ResolvedResponse(req[r].barcode, food_data))
    /\ UNCHANGED <<foods, logs, nextFoodId, nextLogId, probe, schema>>

\* lines 319-328, and 342-349 when the query or to_dict raises
Find(r) ==
    /\ req[r].pc = "find"
    /\ \E fault \in QueryFaults :
         LET cur == [req[r] EXCEPT !.fault = fault, !.calls = Append(@, "find")]
             failed == SavedFailedResponse(req[r].barcode, req[r].food_data.d)
         IN IF fault # "none"
            THEN Finish(r, cur, failed)
            ELSE \E existing_food \in get_food_by_barcode(foods, req[r].barcode) :
                   LET seen == [cur EXCEPT !.existing = existing_food]
                   IN IF existing_food = None
                      THEN Goto(r, seen, "create")
                      ELSE IF ToDictRaises(existing_food)
                           THEN Finish(r, seen, failed)
                           ELSE Finish(r, seen,
                                       AlreadyExistsResponse(req[r].barcode,
                                                             ToDict(existing_food)))
    /\ UNCHANGED <<foods, logs, nextFoodId, nextLogId, probe, schema>>

\* the faults the database can show in create_food: once the uuid supply of
\* the model is used up the insert fails
FaultsOfCreate == IF nextFoodId > MaxFoods THEN {"commit"} ELSE CreateFaults

\* lines 330-340, and 342-349 when create_food or to_dict raises
Create(r) ==
    /\ req[r].pc = "create"
    /\ \E fault \in FaultsOfCreate :
         LET cur == [req[r] EXCEPT !.fault = fault, !.calls = Append(@, "create")]
             created == create_food(foods, req[r].food_data.d, nextFoodId, fault)
         IN /\ foods' = created.store
            /\ nextFoodId' = IF created.store = foods THEN nextFoodId ELSE nextFoodId + 1
            /\ IF created.raised \/ ToDictRaises(created.food)
               THEN Finish(r, cur, SavedFailedResponse(req[r].barcode, req[r].food_data.d))
               ELSE Finish(r, cur, SavedResponse(req[r].barcode, ToDict(created.food)))
    /\ UNCHANGED <<logs, nextLogId, probe, schema>>

\* the response has been sent
Respond(r) ==
    /\ req[r].pc = "done"
    /\ req' = [req EXCEPT ![r] = IdleReq]
    /\ UNCHANGED <<foods, logs, nextFoodId, nextLogId, probe, schema>>

(***************************************************************************)
(* Other users of the store                                                *)
(***************************************************************************)
Beans == <<"B", "e", "a", "n", "s">>
Tea == <<"T", "e", "a">>

\* the food_data dicts callers of crud.create_food pass in the model
FoodInputs ==
    { [barcode |-> Str(Ean13), name |-> Str(Beans), quantity |-> Num(50000),
       expiry_date |-> Date(<<"2", "0", "2", "4", "-", "1", "2", "-", "3", "1">>)],
      [barcode |-> Str(Ean13), name |-> Str(Beans), quantity |-> Num(50000),
       barcode_image_data |-> Bytes(<<"P", "N", "G">>)],
      [barcode |-> Str(Ean8), name |-> Str(Tea), quantity |-> Num(0)] }

\* crud.create_food called by a script or by the create endpoint
CreateFood(food_data) ==
    /\ \E fault \in FaultsOfCreate :
         LET created == create_food(foods, food_data, nextFoodId, fault)
         IN /\ foods' = created.store
            /\ nextFoodId' = IF created.store = foods THEN nextFoodId ELSE nextFoodId + 1
    /\ UNCHANGED <<logs, nextLogId, req, probe, schema>>

\* the actions NutritionLogBase.validate_action lets through
LogActions == {"added", "removed", "consumed", "expired"}

\* NutritionLog(food_id=..., quantity=..., action=...)
NutritionLog(id, food_id, quantity, action) ==
    [id |-> id, food_id |-> food_id, quantity |-> quantity, action |-> action]

\* create_nutrition_log_endpoint (main.py 370-387) with log_nutrition_event:
\* 404 when the food is not stored, else one more row in nutrition_logs
CreateNutritionLog(food_id, quantity, action) ==
    /\ nextLogId <= MaxLogs
    /\ quantity > 0
    /\ action \in LogActions
    /\ \E f \in foods : f.id = food_id
    /\ logs' = logs \cup {NutritionLog(nextLogId, food_id, quantity, action)}
    /\ nextLogId' = nextLogId + 1
    /\ UNCHANGED <<foods, nextFoodId, req, probe, schema>>

(***************************************************************************)
(* Direct calls of the functions of barcode_detector.py                    *)
(***************************************************************************)
\* lists of symbols pyzbar can find in one grid
SymLists == { <<>>, <<Sym(Ean8)>>, <<Sym(Ean13), Sym(Ean8)>>, <<BadUtf8>> }

\* the image_data arguments of the direct calls
DetectorInputs ==
    { Picture(TRUE, o, g, th, a) : o, g, th, a \in SymLists }
        \cup { BadPayload(kind) : kind \in BadPayloads }

\* the string of n characters c
Repeat(c, n) == [i \in 1..n |-> c]

\* characters that are not ASCII digits
OtherChars == {"x", " ", "-"} \cup UnicodeDigits

\* the barcode arguments of the direct calls: digit strings of every length
\* up to MaxLen, the same with one character that is not an ASCII digit at
\* any position, and the payloads of the pictures
Texts ==
    { Repeat("7", n) : n \in 0..MaxLen }
        \cup UNION { { [Repeat("7", n) EXCEPT ![p] = c] :
                            p \in 1..n, c \in OtherChars } : n \in 1..MaxLen }
        \cup { Ean13, Ean8, QrText, Digits9 }

\* a call that has not returned yet
Call(fn, arg) == [fn |-> fn, pc |-> "called", arg |-> arg]

\* the call returns ret
Return(ret) ==
    /\ probe' = [fn |-> probe.fn, pc |-> "returned", arg |-> probe.arg, ret |-> ret]
    /\ UNCHANGED <<foods, logs, nextFoodId, nextLogId, req, schema>>

\* one optional key of a dict: no key at all, or the key with one of the values
Optional(key, values) == { <<>> } \cup { key :> v : v \in values }

Oatly == <<"O", "a", "t", "l", "y">>
MilkSoy == <<"m", "i", "l", "k", ",", " ", "s", "o", "y">>

\* the nutriments objects of the direct calls: each nutrient missing, zero,
\* positive, positive below half a hundredth, or negative
NutrimentInputs ==
    { Dict(p @@ e @@ f) :
        p \in Optional("proteins_100g", {Num(0), Num(1234), Num(4), Num(-1500)}),
        e \in Optional("energy-kcal_100g", {Num(0), Num(45500)}),
        f \in Optional("fat_100g", {Num(0)}) }

\* the product objects of the direct calls: every text field missing, given,
\* or empty once trimmed
ProductInputs ==
    { n @@ b @@ c @@ a @@ nu :
        n \in Optional("product_name", {Str(<<" ">> \o OatMilk \o <<" ">>),
                                        Str(<<" ", " ">>)}),
        b \in Optional("brands", {Str(Oatly \o <<" ">>), Str(<<" ">>)}),
        c \in Optional("categories",
                       {Str(<<"D", "r", "i", "n", "k", "s", ",", " ", "V", "e", "g">>),
                        Str(<<" ", ",", "V", "e", "g">>), Str(<<>>)}),
        a \in Optional("allergens",
                       {Str(MilkSoy), Str(<<"s", "o", "y">>), Str(<<>>)}),
        nu \in Optional("nutriments", NutrimentInputs) }

InitFunctions ==
    /\ foods = {}
    /\ logs = {}
    /\ nextFoodId = 1
    /\ nextLogId = 1
    /\ req = [r \in Reqs |-> IdleReq]
    /\ probe \in { Call("detect", [image |-> image, fault |-> fault]) :
                       image \in DetectorInputs, fault \in DetectorFaults }
                 \cup { Call("preprocess", Grid(kind)) : kind \in Grids }
                 \cup { Call("validate", text) : text \in Texts }
                 \cup { Call("normalize", product) : product \in ProductInputs }
    /\ schema = "models"

\* detect_barcodes_with_preprocessing(image_data) runs
CallDetect ==
    /\ probe.fn = "detect" /\ probe.pc = "called"
    /\ Return(DetectRun(probe.arg.image, probe.arg.fault))

\* preprocess_image(img) runs
CallPreprocess ==
    /\ probe.fn = "preprocess" /\ probe.pc = "called"
    /\ Return(preprocess_image(probe.arg))

\* validate_barcode_format(barcode) runs
CallValidate ==
    /\ probe.fn = "validate" /\ probe.pc = "called"
    /\ Return(validate_barcode_format(probe.arg))

\* main.py 291-315 run on a catalog answer whose product is probe.arg, for
\* barcode Ean13
CallNormalize ==
    /\ probe.fn = "normalize" /\ probe.pc = "called"
    /\ IF BuildRaises([status |-> Num(1000), product |-> Dict(probe.arg)])
       THEN Return([raised |-> TRUE, food_data |-> <<>>])
       ELSE Return([raised |-> FALSE,
                    food_data |-> BuildFoodData(Str(Ean13), probe.arg)])

NextFunctions == CallDetect \/ CallPreprocess \/ CallValidate \/ CallNormalize

SpecFunctions == InitFunctions /\ [][NextFunctions]_vars

(***************************************************************************)
(* The store's endpoints (main.py) and functions (crud.py)                 *)
(***************************************************************************)
\* setup.py 40-58: table foods as setup.py creates it has no barcode image
\* columns, and its barcode is UNIQUE
SetupFoodColumns == FoodColumns \ {"barcode_image_url", "barcode_image_data"}

TableColumns == IF schema = "setup" THEN SetupFoodColumns ELSE FoodColumns

UniqueBarcode == schema = "setup"

\* the ORM's SELECT and INSERT on foods name every mapped column, and fail
\* on a table that lacks one
FoodsTableRaises == ~(FoodColumns \subseteq TableColumns)

\* where the database can fail inside a call: nowhere, or at a statement
CommitFaults == {"none", "commit"}

\* the faults of a call that reads or writes foods
FoodsFaults == IF FoodsTableRaises THEN {"commit"} ELSE CommitFaults

\* the faults of the insert of food_data with uuid number id into store
InsertFaults(store, id, food_data) ==
    IF \/ id > MaxFoods
       \/ FoodsTableRaises
       \/ UniqueBarcode /\ \E f \in store : f.barcode = Get(food_data, "barcode", None)
    THEN {"commit"}
    ELSE CreateFaults

\* the faults of the insert of a log
LogFaults == IF nextLogId > MaxLogs THEN {"commit"} ELSE CommitFaults

\* the result of a call
Returns(fn, arg, ret) == [fn |-> fn, pc |-> "returned", arg |-> arg, ret |-> ret]

Abs(n) == IF n < 0 THEN -n ELSE n

\* the row after setattr(food, key, value) for the keys that are columns
SetAttrs(food, food_data, keys) ==
    [c \in FoodColumns |-> IF c \in keys /\ c \in DOMAIN food_data
                           THEN food_data[c] ELSE food[c]]

\* the rows of nutrition_logs the ORM deletes with the foods in gone
\* (cascade="all, delete-orphan")
CascadeLogs(logstore, gone) == {l \in logstore : \E f \in gone : f.id = l.food_id}

\* food.dict() of a FoodCreate: every field, None or 0 where not given
FoodCreateDict(food) ==
    [c \in FoodColumns \ {"id"} |->
        IF c \in DOMAIN food THEN food[c]
        ELSE IF c = "quantity" THEN Num(0) ELSE None]

ImageB64 == <<"a", "G", "k", "=">>

\* the bodies of POST /foods/ that pass FoodCreate
FoodCreates ==
    { [barcode |-> Str(Ean13), name |-> Str(Beans), quantity |-> Num(50000)],
      [barcode |-> Str(Ean13), name |-> Str(Beans), quantity |-> Num(50000),
       barcode_image_data |-> Str(ImageB64)] }

\* create_food_endpoint: 201 with the food, 500 when create_food raises
CreateFoodEndpoint(food) ==
    /\ \E fault \in InsertFaults(foods, nextFoodId, food) :
         LET created == create_food(foods, FoodCreateDict(food), nextFoodId, fault)
         IN /\ foods' = created.store
            /\ nextFoodId' = IF created.store = foods THEN nextFoodId ELSE nextFoodId + 1
            /\ probe' = Returns("create_food_endpoint", food,
                                [status |-> IF created.raised THEN 500 ELSE 201,
                                 food |-> created.food])
    /\ UNCHANGED <<logs, nextLogId, req, schema>>

\* update_food: None when no food has the id; else setattr, commit, refresh;
\* on an exception rollback and re-raise
update_food(store, food_id, food_data, fault) ==
    LET rows == {f \in store : f.id = food_id}
    IN IF fault = "commit"
       THEN [raised |-> TRUE, store |-> store, food |-> None]
       ELSE IF rows = {}
            THEN [raised |-> FALSE, store |-> store, food |-> None]
            ELSE LET food == CHOOSE f \in rows : TRUE
                     changed == SetAttrs(food, food_data, FoodColumns)
                 IN IF ViolatesNotNull(changed) \/ BindRaises(changed)
                    THEN [raised |-> TRUE, store |-> store, food |-> None]
                    ELSE [raised |-> FALSE, store |-> (store \ {food}) \cup {changed},
                          food |-> changed]

\* the bodies of PUT /foods/{food_id} that pass FoodUpdate, without their
\* None values
FoodUpdates == { <<>>, [quantity |-> Num(3000)] }

\* update_food_endpoint: 400 without data, 404 without the food
UpdateFoodEndpoint(food_id, update_data) ==
    /\ IF update_data = <<>>
       THEN /\ probe' = Returns("update_food_endpoint",
                                [food_id |-> food_id, data |-> update_data],
                                [status |-> 400, food |-> None])
            /\ foods' = foods
       ELSE \E fault \in FoodsFaults :
              LET updated == update_food(foods, food_id, update_data, fault)
              IN /\ foods' = updated.store
                 /\ probe' = Returns("update_food_endpoint",
                                     [food_id |-> food_id, data |-> update_data],
                                     [status |-> IF updated.raised THEN 500
                                                 ELSE IF updated.food = None THEN 404
                                                 ELSE 200,
                                      food |-> updated.food])
    /\ UNCHANGED <<logs, nextFoodId, nextLogId, req, schema>>

\* update_quantity: None when no food has the id; else a log of
\* abs(quantity_change), commit, refresh and the food.  No statement of the
\* function, no trigger of models.py and no trigger of setup.py writes
\* food.quantity.
update_quantity(store, logstore, food_id, quantity_change, action, log_id, fault) ==
    LET rows == {f \in store : f.id = food_id}
    IN IF fault = "commit"
       THEN [raised |-> TRUE, logs |-> logstore, food |-> None]
       ELSE IF rows = {}
            THEN [raised |-> FALSE, logs |-> logstore, food |-> None]
            ELSE IF action \notin LogActions
                 THEN [raised |-> TRUE, logs |-> logstore, food |-> None]
                 ELSE [raised |-> FALSE,
                       logs |-> logstore \cup
                                  {NutritionLog(log_id, food_id, Abs(quantity_change), action)},
                       food |-> CHOOSE f \in rows : TRUE]

\* update_quantity_endpoint: 404 without the food
UpdateQuantityEndpoint(food_id, quantity_change, action) ==
    /\ \E fault \in (IF FoodsTableRaises THEN {"commit"} ELSE LogFaults) :
         LET updated == update_quantity(foods, logs, food_id, quantity_change,
                                        action, nextLogId, fault)
         IN /\ logs' = updated.logs
            /\ nextLogId' = IF updated.logs = logs THEN nextLogId ELSE nextLogId + 1
            /\ probe' = Returns("update_quantity_endpoint",
                                [food_id |-> food_id, quantity_change |-> quantity_change],
                                [status |-> IF updated.raised THEN 500
                                            ELSE IF updated.food = None THEN 404
                                            ELSE 200,
                                 food |-> updated.food])
    /\ UNCHANGED <<foods, nextFoodId, req, schema>>

\* delete_food: False when no food has the id; else the food and, by the
\* ORM's cascade, its logs are deleted
delete_food(store, logstore, food_id, fault) ==
    LET rows == {f \in store : f.id = food_id}
    IN IF fault = "commit"
       THEN [raised |-> TRUE, value |-> FALSE, store |-> store, logs |-> logstore]
       ELSE IF rows = {}
            THEN [raised |-> FALSE, value |-> FALSE, store |-> store, logs |-> logstore]
            ELSE [raised |-> FALSE, value |-> TRUE, store |-> store \ rows,
                  logs |-> logstore \ CascadeLogs(logstore, rows)]

\* delete_food_endpoint: 204, or 404 without the food
DeleteFoodEndpoint(food_id) ==
    /\ \E fault \in FoodsFaults :
         LET deleted == delete_food(foods, logs, food_id, fault)
         IN /\ foods' = deleted.store
            /\ logs' = deleted.logs
            /\ probe' = Returns("delete_food_endpoint", food_id,
                                [status |-> IF deleted.raised THEN 500
                                            ELSE IF deleted.value THEN 204 ELSE 404])
    /\ UNCHANGED <<nextFoodId, nextLogId, req, schema>>

\* delete_food_by_barcode that deletes the first food only
delete_food_by_barcode_first(store, logstore, barcode, fault) ==
    LET rows == {f \in store : f.barcode = barcode}
        first == IF rows = {} THEN {} ELSE {CHOOSE f \in rows : TRUE}
    IN IF fault = "commit"
       THEN [raised |-> TRUE, value |-> FALSE, store |-> store, logs |-> logstore]
       ELSE [raised |-> FALSE, value |-> rows # {}, store |-> store \ first,
             logs |-> logstore \ CascadeLogs(logstore, first)]

\* delete_food_by_barcode: False when no food has the barcode; else every
\* food with the barcode and, by the ORM's cascade, their logs are deleted
delete_food_by_barcode(store, logstore, barcode, fault) ==
    LET rows == {f \in store : f.barcode = barcode}
    IN IF fault = "commit"
       THEN [raised |-> TRUE, value |-> FALSE, store |-> store, logs |-> logstore]
       ELSE IF rows = {}
            THEN [raised |-> FALSE, value |-> FALSE, store |-> store, logs |-> logstore]
            ELSE [raised |-> FALSE, value |-> TRUE, store |-> store \ rows,
                  logs |-> logstore \ CascadeLogs(logstore, rows)]

\* a call of delete_food_by_barcode, as delete_food_by_barcode_endpoint makes
DeleteFoodByBarcode(barcode) ==
    /\ \E fault \in FoodsFaults :
         LET deleted == delete_food_by_barcode(foods, logs, barcode, fault)
         IN /\ foods' = deleted.store
            /\ logs' = deleted.logs
            /\ probe' = Returns("delete_food_by_barcode", barcode,
                                [raised |-> deleted.raised, value |-> deleted.value])
    /\ UNCHANGED <<nextFoodId, nextLogId, req, schema>>

\* log_nutrition_event: add, commit, refresh; on an exception rollback and
\* re-raise.  The table checks the action; nothing checks the quantity.  The
\* foreign key on food_id is declared, and SQLite ignores it unless
\* PRAGMA foreign_keys = ON was issued on the connection, which database.py
\* never does.
log_nutrition_event(logstore, food_id, quantity, action, log_id, fault) ==
    IF fault = "commit" \/ action \notin LogActions
    THEN [raised |-> TRUE, logs |-> logstore]
    ELSE [raised |-> FALSE,
          logs |-> logstore \cup {NutritionLog(log_id, food_id, quantity, action)}]

\* create_nutrition_log_endpoint on a body that passes NutritionLogCreate:
\* 404 when get_food_by_id finds nothing, else log_nutrition_event
CreateNutritionLogEndpoint(food_id, quantity, action) ==
    /\ quantity > 0
    /\ action \in LogActions
    /\ IF FoodsTableRaises
       THEN /\ probe' = Returns("create_nutrition_log_endpoint", food_id, [status |-> 500])
            /\ UNCHANGED <<logs, nextLogId>>
       ELSE IF \A f \in foods : f.id # food_id
            THEN /\ probe' = Returns("create_nutrition_log_endpoint", food_id,
                                     [status |-> 404])
                 /\ UNCHANGED <<logs, nextLogId>>
            ELSE \E fault \in LogFaults :
                   LET logged == log_nutrition_event(logs, food_id, quantity, action,
                                                     nextLogId, fault)
                   IN /\ logs' = logged.logs
                      /\ nextLogId' = IF logged.logs = logs THEN nextLogId
                                      ELSE nextLogId + 1
                      /\ probe' = Returns("create_nutrition_log_endpoint", food_id,
                                          [status |-> IF logged.raised THEN 500 ELSE 201])
    /\ UNCHANGED <<foods, nextFoodId, req, schema>>

\* log_nutrition_event called by a script, as example_usage.py 52 does, with
\* the id of a food that is stored, was stored, or never was (0)
LogNutritionEvent(food_id, quantity, action) ==
    /\ food_id < nextFoodId
    /\ \E fault \in LogFaults :
         LET logged == log_nutrition_event(logs, food_id, quantity, action,
                                           nextLogId, fault)
         IN /\ logs' = logged.logs
            /\ nextLogId' = IF logged.logs = logs THEN nextLogId ELSE nextLogId + 1
            /\ probe' = Returns("log_nutrition_event",
                                [food_id |-> food_id, action |-> action],
                                [raised |-> logged.raised])
    /\ UNCHANGED <<foods, nextFoodId, req, schema>>

\* the session of one bulk import: the store, the next uuid, whether a
\* failed flush has left the session waiting for a rollback, the counters
ImportStart(store, id) ==
    [store |-> store, next |-> id, pending_rollback |-> FALSE,
     inserted |-> 0, updated |-> 0, errors |-> 0]

\* the except of lines 311-315
RowError(st) == [st EXCEPT !.errors = @ + 1]

\* lines 280-315 for one row, the NaN cells already dropped: the sessions
\* the row can leave.  A session that waits for a rollback raises on every
\* statement.  The update path commits without a rollback on failure;
\* create_food rolls back itself.
ImportRow(st, food_data) ==
    IF st.pending_rollback \/ FoodsTableRaises
    THEN {RowError(st)}
    ELSE UNION {
        IF existing # None
        THEN LET changed == SetAttrs(existing, food_data, FoodColumns \ {"id"})
             IN { IF fault = "commit" \/ ViolatesNotNull(changed) \/ BindRaises(changed)
                  THEN [RowError(st) EXCEPT !.pending_rollback = TRUE]
                  ELSE [st EXCEPT !.store = (@ \ {existing}) \cup {changed},
                                  !.updated = @ + 1] :
                  fault \in CommitFaults }
        ELSE { LET created == create_food(st.store, food_data, st.next, fault)
                   st2 == [st EXCEPT !.store = created.store,
                                     !.next = IF created.store = st.store
                                              THEN @ ELSE @ + 1]
               IN IF created.raised THEN RowError(st2)
                  ELSE [st2 EXCEPT !.inserted = @ + 1] :
               fault \in InsertFaults(st.store, st.next, food_data) } :
        existing \in get_food_by_barcode(st.store, Get(food_data, "barcode", None)) }

\* the loop of line 279 from row i on
RECURSIVE ImportRows(_, _, _)
ImportRows(st, df, i) ==
    IF i > Len(df) THEN {st}
    ELSE UNION { ImportRows(st2, df, i + 1) : st2 \in ImportRow(st, df[i]) }

\* the frames of the model, a row being the dict of its cells that are not NaN
Frames ==
    { << [barcode |-> Str(Ean8), name |-> Str(Tea), quantity |-> Num(-5000)] >>,
      << [barcode |-> Str(Ean13), name |-> Str(Beans),
          barcode_image_data |-> Str(ImageB64)],
         [barcode |-> Str(Ean8), name |-> Str(Tea), quantity |-> Num(3000)] >>,
      << [barcode |-> Str(Ean8)],
         [barcode |-> Str(Ean13), name |-> Str(Beans), quantity |-> Num(50000)] >>,
      << [barcode |-> Str(Ean8), name |-> Str(Tea), quantity |-> Num(3000)],
         [barcode |-> Str(Ean8), name |-> Str(Tea), quantity |-> Num(3000)] >> }

\* bulk_import_from_dataframe(df): the rows in order in one session; the
\* commit of get_db_session (database.py 62) raises when the session waits
\* for a rollback, and the function raises instead of returning the counters
BulkImport(df) ==
    /\ \E st \in ImportRows(ImportStart(foods, nextFoodId), df, 1) :
         /\ foods' = st.store
         /\ nextFoodId' = st.next
         /\ probe' = Returns("bulk_import_from_dataframe", df,
                             [raised |-> st.pending_rollback, total_rows |-> Len(df),
                              inserted |-> st.inserted, updated |-> st.updated,
                              errors |-> st.errors])
    /\ UNCHANGED <<logs, nextLogId, req, schema>>

\* the table files as they are before the first request
InitStore ==
    /\ foods = {}
    /\ logs = {}
    /\ nextFoodId = 1
    /\ nextLogId = 1
    /\ req = [r \in Reqs |-> IdleReq]
    /\ probe = NoProbe
    /\ schema \in {"models", "setup"}

\* the writers of table foods: the create and update endpoints, the bulk
\* import and the two deletes
NextFoods ==
    \/ \E food \in FoodCreates : CreateFoodEndpoint(food)
    \/ \E food_id \in 1..MaxFoods, update_data \in FoodUpdates :
          UpdateFoodEndpoint(food_id, update_data)
    \/ \E food_id \in 1..MaxFoods : DeleteFoodEndpoint(food_id)
    \/ \E barcode \in {Str(Ean13), Str(Ean8)} : DeleteFoodByBarcode(barcode)
    \/ \E df \in Frames : BulkImport(df)

SpecFoods == InitStore /\ [][NextFoods]_vars

\* the writers of table nutrition_logs, with the creation and the deletion
\* of the foods the logs are about
NextLogs ==
    \/ \E food \in FoodCreates : CreateFoodEndpoint(food)
    \/ \E food_id \in 1..MaxFoods, quantity_change \in {-5, 0, 3} :
          UpdateQuantityEndpoint(food_id, quantity_change, "consumed")
    \/ \E food_id \in 1..MaxFoods : DeleteFoodEndpoint(food_id)
    \/ \E barcode \in {Str(Ean13), Str(Ean8)} : DeleteFoodByBarcode(barcode)
    \/ \E food_id \in 1..MaxFoods : CreateNutritionLogEndpoint(food_id, 2, "consumed")
    \/ \E food_id \in 0..MaxFoods, action \in {"consumed", "eaten"} :
          LogNutritionEvent(food_id, 2, action)

SpecLogs == InitStore /\ [][NextLogs]_vars

(***************************************************************************)
(* Specifications                                                          *)
(***************************************************************************)
Next ==
    \/ \E r \in Reqs, image \in Images, action \in Actions : Submit(r, image, action)
    \/ \E r \in Reqs : Detect(r)
    \/ \E r \in Reqs : Validate(r)
    \/ \E r \in Reqs : Lookup(r)
    \/ \E r \in Reqs : Normalize(r)
    \/ \E r \in Reqs : Find(r)
    \/ \E r \in Reqs : Create(r)
    \/ \E r \in Reqs : Respond(r)
    \/ \E food_data \in FoodInputs : CreateFood(food_data)
    \/ \E food_id \in 1..MaxFoods, action \in {"consumed"} :
          CreateNutritionLog(food_id, 2, action)

Spec == Init /\ [][Next]_vars

TypeOK ==
    /\ \A f \in foods : f.id \in 1..MaxFoods
    /\ \A r \in Reqs : req[r].pc \in {"idle", "detect", "validate", "lookup",
                                     "normalize", "find", "create", "done"}

\* Sequential use of the workflow alone: requests one after the other on a
\* store nobody else writes to.
NextSequential ==
    \/ \E r \in Reqs, image \in Images, action \in Actions : Submit(r, image, action)
    \/ \E r \in Reqs : Detect(r)
    \/ \E r \in Reqs : Validate(r)
    \/ \E r \in Reqs : Lookup(r)
    \/ \E r \in Reqs : Normalize(r)
    \/ \E r \in Reqs : Find(r)
    \/ \E r \in Reqs : Create(r)
    \/ \E r \in Reqs : Respond(r)

SpecSequential == Init /\ [][NextSequential]_vars

\* Two clients that send scan_and_save requests at the same time, on a store
\* nobody else writes to.
Clients == {"r1", "r2"}

\* a QR code whose payload is eight ARABIC-INDIC DIGIT THREE
ArabicIndic8 == [i \in 1..8 |-> "U+0663"]

\* the pictures the two clients send: a retail barcode and a QR code
ClientImages ==
    { Picture(TRUE, <<Sym(Ean13)>>, <<>>, <<>>, <<>>),
      Picture(TRUE, <<Sym(ArabicIndic8)>>, <<>>, <<>>, <<>>) }

InitConcurrent ==
    /\ foods = {}
    /\ logs = {}
    /\ nextFoodId = 1
    /\ nextLogId = 1
    /\ req = [r \in Clients |-> IdleReq]
    /\ probe = NoProbe
    /\ schema = "models"

NextConcurrent ==
    \/ \E r \in Clients, image \in ClientImages : Submit(r, image, "scan_and_save")
    \/ \E r \in Clients : Detect(r)
    \/ \E r \in Clients : Validate(r)
    \/ \E r \in Clients : Lookup(r)
    \/ \E r \in Clients : Normalize(r)
    \/ \E r \in Clients : Find(r)
    \/ \E r \in Clients : Create(r)
    \/ \E r \in Clients : Respond(r)

SpecConcurrent == InitConcurrent /\ [][NextConcurrent]_vars

(***************************************************************************)
(* Vocabulary of the properties                                            *)
(***************************************************************************)
\* the outcome a returned response stands for, by the return statement that
\* built it
Outcome(result) ==
    IF result.kind # "response" THEN "Raised"
    ELSE CASE result.message = Text(MsgNotFound) -> "NotFound"
           [] result.message = Text(MsgInvalidFormat) -> "InvalidFormat"
           [] result.message = Text(MsgBarcodeOnly) -> "BarcodeOnly"
           [] result.message = Text(MsgFetchError) -> "FetchError"
           [] result.message = Text(MsgAlreadyExists) -> "AlreadyExists"
           [] result.message = Text(MsgSaved) -> "Saved"
           [] result.message = Text(MsgSavedFailed) -> "SavedFailed"
           [] result.message = Text(MsgResolved) -> "Resolved"
           [] OTHER -> "Unknown"

Done(r) == req[r].pc = "done"

\* how many times collaborator c was invoked by request r
Invocations(r, c) == Cardinality({i \in 1..Len(req[r].calls) : req[r].calls[i] = c})

Invoked(r, c) == Invocations(r, c) > 0

\* the catalog answered 200 with a body that has a product to normalize
CatalogGaveProduct(r) ==
    /\ req[r].lookup # None
    /\ req[r].lookup.kind = "http"
    /\ req[r].lookup.status_code = 200
    /\ req[r].lookup.body # BadJson
    /\ Get(req[r].lookup.body.d, "status", None) # Num(0)

\* the catalog answered with success and a payload lines 291-315 cannot read
MalformedPayload(r) == CatalogGaveProduct(r) /\ BuildRaises(req[r].lookup.body.d)

\* the rows of the store with a barcode
RowsWith(barcode) == {f \in foods : f.barcode = barcode}

StageOrder == <<"detect", "validate", "catalog", "normalize", "find", "create">>
\* the handler's position before each stage
StagePc == <<"detect", "validate", "lookup", "normalize", "find", "create">>

C2_AlreadyExists ==
    \A r \in Reqs :
        Done(r) /\ req[r].action = "scan_and_save" /\ req[r].existing # None =>
            /\ req[r].existing \in foods
            /\ ~ToDictRaises(req[r].existing)
            /\ req[r].result =
                 AlreadyExistsResponse(req[r].barcode, ToDict(req[r].existing))

(***************************************************************************)
(* C3                                                                      *)
(***************************************************************************)
\* the catalog lookup and every store operation of request r succeeded
AllSucceeded(r) ==
    /\ req[r].action = "scan_and_save"
    /\ CatalogGaveProduct(r)
    /\ req[r].food_data # None
    /\ Invoked(r, "find")
    /\ req[r].fault = "none"
    /\ "name" \in DOMAIN req[r].food_data.d

\* C3: under sequential use from an empty store no barcode ever has two
\* records, and a finished scan_and_save request whose lookup and store
\* operations succeeded leaves exactly one record with its barcode: it created
\* and returned that record when it found none, and it returned AlreadyExists
\* with that record when it found one.
C3_Idempotent ==
    /\ \A f, g \in foods : f.barcode = g.barcode => f = g
    /\ \A r \in Reqs :
         Done(r) /\ AllSucceeded(r) =>
             /\ Cardinality(RowsWith(req[r].barcode)) = 1
             /\ \A f \in RowsWith(req[r].barcode) :
                    /\ req[r].result.product_data = Dict(ToDict(f))
                    /\ f.name = req[r].result.product_data.d["name"]
             /\ req[r].existing = None => Outcome(req[r].result) = "Saved"
             /\ req[r].existing # None => Outcome(req[r].result) = "AlreadyExists"

\* reached: a later request found the record an earlier request had created
C3_Witness ==
    \E r \in Reqs :
        /\ Done(r) /\ AllSucceeded(r)
        /\ Outcome(req[r].result) = "AlreadyExists"
        /\ Cardinality(RowsWith(req[r].barcode)) = 1

C5_FailedSave ==
    [][\A r \in Reqs :
         req[r].pc = "create" /\ req'[r].pc = "done" /\ req'[r].fault # "none" =>
             /\ req'[r].result =
                  SavedFailedResponse(req[r].barcode, req[r].food_data.d)
             /\ foods' = foods]_vars

(***************************************************************************)
(* C6                                                                      *)
(***************************************************************************)
\* the catalog call of request r raised (timeout or network failure)
CatalogRaised(r) ==
    req[r].lookup # None /\ req[r].lookup.kind \in {"timeout", "connection_error"}

CatalogSaidNotFound(r) ==
    /\ req[r].lookup # None
    /\ req[r].lookup.kind = "http"
    /\ \/ req[r].lookup.status_code # 200
       \/ /\ req[r].lookup.body # BadJson
          /\ Get(req[r].lookup.body.d, "status", None) = Num(0)

\* C7: when the catalog answers with a non-200 response or with status 0, the
\* request returns BarcodeOnly with the detected barcode and no product data,
\* whatever the action, and it has run neither normalization nor a store
\* operation.
C7_BarcodeOnly ==
    \A r \in Reqs :
        Done(r) /\ CatalogSaidNotFound(r) =>
            /\ req[r].result = BarcodeOnlyResponse(req[r].barcode)
            /\ req[r].result.success
            /\ req[r].result.barcode = Str(req[r].barcodes[1])
            /\ req[r].result.product_data = None
            /\ req[r].food_data = None
            /\ req[r].calls = <<"detect", "validate", "catalog">>

\* reached: status 0 on a scan_and_save request
C7_Witness ==
    \E r \in Reqs :
        /\ Done(r) /\ req[r].action = "scan_and_save"
        /\ CatalogSaidNotFound(r)
        /\ req[r].lookup.status_code = 200

(***************************************************************************)
(* C8                                                                      *)
(***************************************************************************)
\* C8: the stages a request has run are an initial part of Detect, Validate,
\* Lookup, Normalize, Find, Create; the catalog is queried only after a
\* non-empty detection whose first text passed validation; the store is read
\* or written only for scan_and_save after the catalog returned a product; and
\* nothing but the create stage of a request changes the foods on its behalf.
C8_StageOrder ==
    /\ [](\A r \in Reqs :
            /\ Len(req[r].calls) <= Len(StageOrder)
            /\ req[r].calls = SubSeq(StageOrder, 1, Len(req[r].calls))
            /\ Invoked(r, "catalog") =>
                 /\ req[r].barcodes # <<>>
                 /\ validate_barcode_format(req[r].barcodes[1])
            /\ Done(r) /\ Outcome(req[r].result) \in {"NotFound", "InvalidFormat"} =>
                 ~Invoked(r, "catalog")
            /\ Invoked(r, "find") \/ Invoked(r, "create") =>
                 /\ req[r].action = "scan_and_save"
                 /\ CatalogGaveProduct(r)
                 /\ req[r].food_data # None)
    /\ [][\A r \in Reqs :
            req'[r] # req[r] /\ foods' # foods =>
                req[r].pc = "create" /\ req[r].action = "scan_and_save"]_vars

\* reached: an invalid first text ended the request before the catalog
C8_Witness ==
    \E r \in Reqs :
        /\ Done(r) /\ Outcome(req[r].result) = "InvalidFormat"
        /\ req[r].calls = <<"detect", "validate">>

C10_AtMostOnce ==
    \A r \in Reqs :
        /\ Invocations(r, "catalog") <= 1
        /\ Invocations(r, "find") <= 1
        /\ Invocations(r, "create") <= 1
        /\ Done(r) /\ CatalogRaised(r) => req[r].calls[Len(req[r].calls)] = "catalog"

\* reached: a request that queried the catalog, read the store and wrote to it
C10_Witness ==
    \E r \in Reqs :
        /\ Done(r)
        /\ Invocations(r, "catalog") = 1
        /\ Invocations(r, "find") = 1
        /\ Invocations(r, "create") = 1

(***************************************************************************)
(* C11                                                                     *)
(***************************************************************************)
\* the handler of request r has started and has not returned
InFlight(r) == req[r].pc \notin {"idle", "done"}

LookupFailed(r) ==
    /\ req[r].lookup # None
    /\ LookupResult(req[r].barcode, req[r].lookup) = FetchErrorResponse

\* C12: the lookup step of a request and every step of a request whose lookup
\* failed leave the foods, the logs and the id supplies as they are; a failed
\* lookup ends the request at once; and once the response is sent the request
\* slot is as it was before the request came (no field keeps the failure), so
\* a later request starts from the image, the action and the store alone.
C12_NoResidue ==
    /\ [][\A r \in Reqs :
            req'[r] # req[r] /\ (req[r].pc = "lookup" \/ LookupFailed(r)) =>
                /\ UNCHANGED <<foods, logs, nextFoodId, nextLogId>>
                /\ req[r].pc = "lookup" /\ LookupFailed(r)' => req'[r].pc = "done"
                /\ LookupFailed(r) => req'[r] = IdleReq]_vars
    /\ [](\A r \in Reqs :
            /\ req[r].pc = "idle" => req[r] = IdleReq
            /\ LookupFailed(r) =>
                 /\ Done(r)
                 /\ req[r].calls = <<"detect", "validate", "catalog">>)

\* reached: a request whose lookup timed out has finished while the store
\* holds foods and logs
C12_Witness ==
    \E r \in Reqs :
        /\ Done(r) /\ LookupFailed(r)
        /\ req[r].lookup = [kind |-> "timeout"]
        /\ req[r].action = "scan_and_save"
        /\ foods # {} /\ logs # {}

(***************************************************************************)
(* Vocabulary of the properties of barcode_detector.py                     *)
(***************************************************************************)
\* a direct call of fn has returned
Returned(fn) == probe.fn = fn /\ probe.pc = "returned"

\* the texts of a list of symbols whose payloads are all UTF-8
TextsOf(syms) == [i \in 1..Len(syms) |-> syms[i].text]

AllUtf8(syms) == \A i \in 1..Len(syms) : syms[i] # BadUtf8

\* the cascade in its fixed order
CascadeOrder == <<"gray", "thresh", "adaptive">>

\* the position in the cascade of the first variant in which pyzbar finds a
\* symbol, 0 when it finds none in any variant
FirstHit(image) ==
    LET hits == {i \in 1..Len(CascadeOrder) : image[CascadeOrder[i]] # <<>>}
    IN IF hits = {} THEN 0 ELSE CHOOSE i \in hits : \A j \in hits : i <= j

CascadeRan ==
    /\ Returned("detect") /\ probe.arg.image.decodable
    /\ probe.arg.image.original = <<>> /\ probe.arg.fault = "none"

\* the calls of a cascade that stops at the first variant with a detection
CascadeCalls(image) ==
    <<"original", "preprocess_image">>
        \o SubSeq(CascadeOrder, 1,
                  IF FirstHit(image) = 0 THEN Len(CascadeOrder) ELSE FirstHit(image))

\* C14 as stated: when pyzbar finds nothing in the decoded image, it is
\* invoked on the variants in the order grayscale, fixed threshold, adaptive
\* threshold up to the first one with a detection and on none after it, the
\* texts of that variant are returned, and the result is empty only if the
\* decoded image and all three variants yield nothing.
C14_CascadeOrder ==
    CascadeRan =>
        /\ probe.ret.calls = CascadeCalls(probe.arg.image)
        /\ probe.ret.texts = <<>> => FirstHit(probe.arg.image) = 0
        /\ FirstHit(probe.arg.image) # 0
               /\ AllUtf8(probe.arg.image[CascadeOrder[FirstHit(probe.arg.image)]]) =>
             probe.ret.texts =
                 TextsOf(probe.arg.image[CascadeOrder[FirstHit(probe.arg.image)]])

\* C14 amended: when pyzbar finds nothing in the decoded image, it is invoked
\* on the variants in the order grayscale, fixed threshold, adaptive threshold
\* up to the first one with a detection and on none after it; the texts of
\* that variant are returned when all its payloads are UTF-8; the result is
\* empty exactly when no variant has a detection or the first variant with a
\* detection holds a payload that is not UTF-8.  When preprocess_image or
\* pyzbar raises, the result is empty and no further call is made.
C14_Cascade ==
    /\ CascadeRan =>
        LET image == probe.arg.image
            hit == FirstHit(image)
        IN /\ probe.ret.calls = CascadeCalls(image)
           /\ ~probe.ret.raised
           /\ probe.ret.texts = <<>> <=>
                 hit = 0 \/ ~AllUtf8(image[CascadeOrder[hit]])
           /\ hit # 0 /\ AllUtf8(image[CascadeOrder[hit]]) =>
                 probe.ret.texts = TextsOf(image[CascadeOrder[hit]])
    /\ Returned("detect") /\ probe.arg.image.decodable
          /\ probe.arg.image.original = <<>> =>
        /\ probe.arg.fault = "preprocess" =>
             /\ probe.ret.texts = <<>>
             /\ probe.ret.calls = <<"original", "preprocess_image">>
        /\ probe.arg.fault = "pyzbar_variant" =>
             /\ probe.ret.texts = <<>>
             /\ probe.ret.calls = <<"original", "preprocess_image", "gray">>

\* reached: nothing in the decoded image nor in the grayscale variant, one
\* text from the fixed-threshold variant, and the adaptive variant, which
\* holds two symbols, was not looked at
C14_Witness ==
    /\ CascadeRan
    /\ probe.arg.image.gray = <<>>
    /\ probe.arg.image.thresh = <<Sym(Ean8)>>
    /\ probe.arg.image.adaptive = <<Sym(Ean13), Sym(Ean8)>>
    /\ probe.ret.texts = <<Ean8>>
    /\ probe.ret.calls = <<"original", "preprocess_image", "gray", "thresh">>

(***************************************************************************)
(* C15                                                                     *)
(***************************************************************************)
\* C15: detect_barcodes_with_preprocessing never raises; for a payload that
\* does not decode as an image (not base64, no image, empty) it returns an
\* empty sequence without a call of pyzbar or of preprocess_image; and it
\* returns an empty sequence when pyzbar raises, when preprocess_image raises
\* and when a payload of the symbols it is about to return is not UTF-8.
C15_NeverRaises ==
    Returned("detect") =>
        LET image == probe.arg.image
            fault == probe.arg.fault
        IN /\ ~probe.ret.raised
           /\ ~image.decodable =>
                 probe.ret.texts = <<>> /\ probe.ret.calls = <<>>
           /\ image.decodable /\ fault = "pyzbar" => probe.ret.texts = <<>>
           /\ image.decodable /\ image.original = <<>>
                 /\ fault \in {"preprocess", "pyzbar_variant"} =>
                    probe.ret.texts = <<>>
           /\ image.decodable /\ fault # "pyzbar" /\ image.original # <<>>
                 /\ ~AllUtf8(image.original) => probe.ret.texts = <<>>
           /\ image.decodable /\ fault = "none" /\ image.original = <<>>
                 /\ FirstHit(image) # 0
                 /\ ~AllUtf8(image[CascadeOrder[FirstHit(image)]]) =>
                    probe.ret.texts = <<>>

\* reached: a payload that is not base64 gave an empty sequence
C15_Witness ==
    /\ Returned("detect")
    /\ probe.arg.image.payload = "invalid_base64"
    /\ probe.ret.texts = <<>> /\ ~probe.ret.raised

(***************************************************************************)
(* C16                                                                     *)
(***************************************************************************)
\* C16: preprocess_image never raises, and it returns either the three
\* variants in the order grayscale, fixed threshold, adaptive threshold or
\* no variant at all.
C16_AllOrNothing ==
    Returned("preprocess") =>
        /\ ~probe.ret.raised
        /\ probe.ret.variants \in {<<>>, CascadeOrder}

C18_AsciiOnly ==
    /\ Returned("validate") /\ probe.ret =>
         \A i \in 1..Len(probe.arg) : probe.arg[i] \in AsciiDigits
    /\ \A r \in DOMAIN req :
         Invoked(r, "catalog") =>
            \A i \in 1..Len(req[r].barcode.s) : req[r].barcode.s[i] \in AsciiDigits
    /\ \A f \in foods :
         \A i \in 1..Len(f.barcode.s) : f.barcode.s[i] \in AsciiDigits

(***************************************************************************)
(* C19                                                                     *)
(***************************************************************************)
\* C19: whatever fields the payload of a success answer of the catalog lacks,
\* has as null or has with a wrong type, the request returns one of the
\* workflow's outcomes with a record built from the payload, and raises
\* nothing.
C19_TolerantPayload ==
    \A r \in Reqs :
        Done(r) /\ CatalogGaveProduct(r) =>
            /\ req[r].result.kind = "response"
            /\ Outcome(req[r].result) \in {"Resolved", "Saved", "AlreadyExists",
                                           "SavedFailed"}
            /\ req[r].food_data # None

(***************************************************************************)
(* C20                                                                     *)
(***************************************************************************)
\* the product_name field of the payload request r normalized
ProductNameField(r) == Get(req[r].lookup.body.d["product"].d, "product_name", None)

\* C20: the record built from the payload always has a name, which is not
\* empty: the trimmed product_name field, and "Unknown Product" when the field
\* is absent, empty or only whitespace.
C20_NameNeverEmpty ==
    \A r \in Reqs :
        req[r].food_data # None =>
            /\ "name" \in DOMAIN req[r].food_data.d
            /\ req[r].food_data.d["name"] # Str(<<>>)
            /\ req[r].food_data.d["name"] =
                 IF ProductNameField(r) = None \/ Strip(ProductNameField(r).s) = <<>>
                 THEN Str(UnknownProduct)
                 ELSE Str(Strip(ProductNameField(r).s))

(***************************************************************************)
(* C21                                                                     *)
(***************************************************************************)
\* the nutriments object of the product the normalizer was called with
NutrimentsOf(product) == Get(product, "nutriments", Dict(<<>>)).d

\* the call of the normalizer returned a record
Normalized == Returned("normalize") /\ ~probe.ret.raised

\* the source value of a nutrient column is missing or zero
MissingOrZero(product, column) ==
    Get(NutrimentsOf(product), NutrientKey[column], None) \in {None, Num(0)}

\* C21: a nutrient column whose source value is missing or zero is absent
\* from the normalized record, so the record never holds a zero that stands
\* for an unknown value; a product whose only nutrient is proteins_100g = 0
\* gives a record without any nutrient column.
C21_ZeroIsAbsent ==
    Normalized =>
        /\ \A c \in NutrientColumns :
              MissingOrZero(probe.arg, c) => c \notin DOMAIN probe.ret.food_data
        /\ NutrimentsOf(probe.arg) = ("proteins_100g" :> Num(0)) =>
              DOMAIN probe.ret.food_data \cap NutrientColumns = {}

\* proteins_100g = 0 alone was normalized, and the record has no nutrient
C21_Witness ==
    /\ Normalized
    /\ NutrimentsOf(probe.arg) = ("proteins_100g" :> Num(0))
    /\ DOMAIN probe.ret.food_data \cap NutrientColumns = {}

(***************************************************************************)
(* C22                                                                     *)
(***************************************************************************)
\* the comma-separated tokens of s, each trimmed, in order
TrimmedTokens(s) == LET t == Split(s, ",") IN [i \in 1..Len(t) |-> Strip(t[i])]

\* C22: the allergens of the record are the comma-separated tokens of the
\* source string, each trimmed, in source order ("milk, soy" gives milk and
\* soy); without a source string the record has no allergens.
C22_TrimmedTokens ==
    Normalized =>
        IF Truthy(Get(probe.arg, "allergens", None))
        THEN /\ "allergens" \in DOMAIN probe.ret.food_data
             /\ probe.ret.food_data["allergens"] =
                    List(TrimmedTokens(probe.arg["allergens"].s))
        ELSE "allergens" \notin DOMAIN probe.ret.food_data

(***************************************************************************)
(* C23                                                                     *)
(***************************************************************************)
\* C23: the record the normalizer hands on has no key whose value is None,
\* '' or []; a brand or a category that is empty once trimmed is left out.
C23_NoEmptyValue ==
    Normalized =>
        /\ \A k \in DOMAIN probe.ret.food_data :
              probe.ret.food_data[k] \notin {None, Str(<<>>), List(<<>>)}
        /\ ("brands" \in DOMAIN probe.arg /\ Strip(probe.arg["brands"].s) = <<>>)
              => "brand" \notin DOMAIN probe.ret.food_data
        /\ ("categories" \in DOMAIN probe.arg
               /\ Truthy(probe.arg["categories"])
               /\ Strip(Split(probe.arg["categories"].s, ",")[1]) = <<>>)
              => "category" \notin DOMAIN probe.ret.food_data

\* a product whose brand and first category are blank was normalized
C23_Witness ==
    /\ Normalized
    /\ "brands" \in DOMAIN probe.arg /\ probe.arg["brands"] = Str(<<" ">>)
    /\ "categories" \in DOMAIN probe.arg
    /\ probe.arg["categories"] = Str(<<" ", ",", "V", "e", "g">>)
    /\ DOMAIN probe.ret.food_data \cap {"brand", "category"} = {}

(***************************************************************************)
(* C24                                                                     *)
(***************************************************************************)
\* the create endpoint can answer body food with 201, one more record with
\* an id of its own, and the stored records as they were
CanCreate(food) ==
    ENABLED ( /\ CreateFoodEndpoint(food)
              /\ probe'.ret.status = 201
              /\ foods \subseteq foods'
              /\ Cardinality(foods') = Cardinality(foods) + 1
              /\ \A f \in foods' \ foods : \A g \in foods : g.id # f.id )

\* C24: the store permits duplicate barcodes: unless the database itself
\* fails, the create endpoint answers a valid body whose barcode already has
\* a record with success, adds a separate record with an id of its own and
\* leaves the stored records unchanged.
C24_DuplicatesPermitted ==
    \A food \in FoodCreates :
        (nextFoodId <= MaxFoods /\ \E f \in foods : f.barcode = food.barcode)
            => CanCreate(food)

(***************************************************************************)
(* C25                                                                     *)
(***************************************************************************)
\* a column holds no negative number
NotNegative(v) == IF IsNum(v) THEN v.n >= 0 ELSE TRUE

\* C25: every stored food has a quantity that is 0 or more and nutrients
\* that are absent or 0 or more, whichever of the create endpoint, the update
\* endpoint and the bulk import wrote it.
C25_NoNegative ==
    \A f \in foods :
        /\ NotNegative(f.quantity)
        /\ \A c \in NutrientColumns : NotNegative(f[c])

(***************************************************************************)
(* C26                                                                     *)
(***************************************************************************)
\* C26: a quantity update that finds its food changes the stored quantity by
\* quantity_change (50 with -5 becomes 45) and returns the food with the new
\* quantity.
C26_QuantityChanged ==
    [][ (probe'.fn = "update_quantity_endpoint" /\ probe'.ret.status = 200) =>
           \E f \in foods :
               /\ f.id = probe'.arg.food_id
               /\ probe'.ret.food \in foods'
               /\ probe'.ret.food.id = f.id
               /\ probe'.ret.food.quantity =
                      Num(f.quantity.n + 1000 * probe'.arg.quantity_change) ]_vars

(***************************************************************************)
(* C28                                                                     *)
(***************************************************************************)
\* C28: every stored nutrition log refers to a stored food: the logs of a
\* deleted food are deleted with it, and no log is created for a food id
\* that is not stored.
C28_LogsHaveFood == \A l \in logs : \E f \in foods : f.id = l.food_id

(***************************************************************************)
(* C29                                                                     *)
(***************************************************************************)
\* C29: every stored nutrition log, created by the log endpoint or by a
\* quantity update with any quantity_change, 0 included, has a quantity
\* above 0 and one of the four actions.
C29_LogWellFormed == \A l \in logs : l.quantity > 0 /\ l.action \in LogActions

(***************************************************************************)
(* C27                                                                     *)
(***************************************************************************)
\* a row that can be stored whatever the other rows are: it has a barcode
\* and a name, and no cell a column cannot bind
StandsAlone(row) ==
    /\ {"barcode", "name"} \subseteq DOMAIN row
    /\ ~("barcode_image_data" \in DOMAIN row /\ IsStr(row["barcode_image_data"]))

\* the barcodes of df that need a new record
NewBarcodes(df) ==
    { df[i]["barcode"] : i \in {j \in 1..Len(df) : StandsAlone(df[j])} }
        \ { f.barcode : f \in foods }

\* the import of df returned its counters, which add up to the number of
\* rows; it added one record per inserted row and none per updated row; and
\* every row that stands alone is stored, the rows before it having failed
\* or not
Upserted(df) ==
    /\ ~probe'.ret.raised
    /\ probe'.ret.inserted + probe'.ret.updated + probe'.ret.errors
          = probe'.ret.total_rows
    /\ probe'.ret.total_rows = Len(df)
    /\ Cardinality(foods') = Cardinality(foods) + probe'.ret.inserted
    /\ \A i \in 1..Len(df) :
          StandsAlone(df[i]) =>
              \E f \in foods' : \A k \in DOMAIN df[i] : f[k] = df[i][k]

\* C27: the bulk import is an upsert by barcode: unless the database itself
\* fails, it returns counters with inserted + updated + errors = total_rows,
\* a row whose barcode is stored updates and adds no record, a row whose
\* barcode is new inserts exactly one, and a failing row is counted as an
\* error without keeping the other rows from being stored.
C27_Upsert ==
    \A df \in Frames :
        (schema = "models" /\ nextFoodId + Cardinality(NewBarcodes(df)) - 1 <= MaxFoods)
            => ENABLED (BulkImport(df) /\ Upserted(df))

(***************************************************************************)
(* C30                                                                     *)
(***************************************************************************)
\* C30: delete_food_by_barcode removes every food that has the barcode and no
\* other food; it returns True exactly when a food had the barcode; when none
\* had, the store is unchanged and it returns False; afterwards
\* get_food_by_barcode finds nothing for the barcode.
C30_DeleteByBarcode ==
    [][ (probe'.fn = "delete_food_by_barcode" /\ ~probe'.ret.raised) =>
           LET had == {f \in foods : f.barcode = probe'.arg}
           IN /\ foods' = foods \ had
              /\ probe'.ret.value = (had # {})
              /\ had = {} => (foods' = foods /\ logs' = logs)
              /\ get_food_by_barcode(foods', probe'.arg) = {None} ]_vars

\* the delete returned True, and a food with another barcode is still there
C30_Witness ==
    /\ probe.fn = "delete_food_by_barcode"
    /\ ~probe.ret.raised /\ probe.ret.value
    /\ \A f \in foods : f.barcode # probe.arg
    /\ foods # {}

====
